---- MODULE Spec2Model ----
(***************************************************************************)
(* Model of _TrinoToGCSTrinoCursorAdapter                                  *)
(* (providers/google/cloud/transfers/trino_to_gcs.py): a wrapper that adds *)
(* a one-row lookahead ("peek"), lazy column metadata and the iteration    *)
(* protocol to a forward-only DB-API cursor.                               *)
(*                                                                         *)
(* The adapter's fields are the variables cursor, rows and initialized.    *)
(* The raw Trino cursor is an external collaborator: it is modelled, from  *)
(* its interface, as a result set with a read position and call counters.  *)
(* The remaining variables observe the calls made by the adapter's owner.  *)
(***************************************************************************)
EXTENDS Integers, Sequences, FiniteSets, TLC

\* ------------------------------------------------------------------ bounds
\* Largest result set a statement returns.
MaxRows == 2
\* Calls the owner makes on the adapter between two executions.
MaxCalls == 4
\* Executions on one raw cursor (the one made by query() included).
MaxExec == 2
\* Largest size passed to fetchmany, and largest cursor.arraysize.
MaxSize == 2
\* Longest arbitrary type code given to field_to_bigquery.
MaxStr == 3
\* Failures of the raw cursor in one run.
MaxErrors == 1

\* ------------------------------------------------------------------ values
\* Python's None: the end-of-stream marker of fetchone.
None == [q |-> 0, n |-> 0]

\* The n-th row emitted by the q-th execution on the raw cursor.
Row(q, n) == [q |-> q, n |-> n]

\* A statement is identified by the number of rows the engine returns for it.
Statements == 0..MaxRows

\* The raw cursor's method names, and the adapter's.
OpNames == {"description", "peekone", "fetchone", "fetchmany", "__next__",
            "execute", "executemany", "rowcount", "close"}

Min(a, b) == IF a <= b THEN a ELSE b

\* ------------------------------------------------------- the raw cursor
\* The result set of the q-th execution, of a statement returning n rows.
ResultSet(q, n) == [i \in 1..n |-> Row(q, i)]

\* cursor.fetchone(): the next row, or None once the result set is exhausted.
\* The column metadata is populated by the first fetch attempt.
CursorFetchone(c) ==
    [cursor |-> [c EXCEPT !.pos = IF c.pos < Len(c.data) THEN c.pos + 1 ELSE c.pos,
                          !.nfetch = c.nfetch + 1,
                          !.description = "columns"],
     ret |-> IF c.pos < Len(c.data) THEN c.data[c.pos + 1] ELSE None]

\* cursor.execute(...) / cursor.executemany(...): a new result set, read from
\* its start; the call returns the engine's result handle.
CursorExecute(c, call, stmt) ==
    [cursor |-> [c EXCEPT !.data = ResultSet(c.nexec + 1, stmt),
                          !.pos = 0,
                          !.nfetch = 0,
                          !.nexec = c.nexec + 1,
                          !.description = "None"],
     ret |-> [call |-> call, q |-> c.nexec + 1]]

\* cursor.rowcount: the number of rows of the result set, read without a fetch.
CursorRowcount(c) == Len(c.data)

\* cursor.close(): the cursor is closed; its owner makes no further call.
CursorClose(c) == [c EXCEPT !.closed = TRUE]

\* The one kind of error the raw cursor raises (connection loss, execution
\* error, protocol error).
QueryExecutionError == "QueryExecutionError"

\* cursor.fetchone() raising: the fetch was attempted and gave no row.
CursorFetchoneError(c) ==
    [cursor |-> [c EXCEPT !.nfetch = c.nfetch + 1, !.nerr = c.nerr + 1],
     raised |-> QueryExecutionError]

\* cursor.execute(...) / cursor.executemany(...) raising: no result set.
CursorExecuteError(c) ==
    [cursor |-> [c EXCEPT !.data = <<>>,
                          !.pos = 0,
                          !.nfetch = 0,
                          !.nexec = c.nexec + 1,
                          !.description = "None",
                          !.nerr = c.nerr + 1],
     raised |-> QueryExecutionError]

\* cursor.rowcount or cursor.close() raising.
CursorError(c) ==
    [cursor |-> [c EXCEPT !.nerr = c.nerr + 1], raised |-> QueryExecutionError]

\* ---------------------------------------------------------- the adapter
\* Faulty variant of InsertFront: rows.append(element).
InsertBack(rows, element) == rows \o <<element>>

\* rows.insert(0, element)
InsertFront(rows, element) == <<element>> \o rows

\* Faulty variant of peekone: the fetched row is returned but not buffered.
peekone_dropping(a) ==
    LET f == CursorFetchone(a.cursor) IN
    [adapter |-> [cursor |-> f.cursor, rows |-> a.rows, initialized |-> TRUE],
     ret |-> f.ret,
     raised |-> "none"]

\* Faulty variant of peekone: the flag is not set.
peekone_without_flag(a) ==
    LET f == CursorFetchone(a.cursor) IN
    [adapter |-> [cursor |-> f.cursor,
                  rows |-> InsertFront(a.rows, f.ret),
                  initialized |-> a.initialized],
     ret |-> f.ret,
     raised |-> "none"]

\* peekone(): return the next row without consuming it.
peekone(a) ==
    LET f == CursorFetchone(a.cursor) IN
    [adapter |-> [cursor |-> f.cursor,
                  rows |-> InsertFront(a.rows, f.ret),
                  initialized |-> TRUE],
     ret |-> f.ret,
     raised |-> "none"]

\* Faulty variant of fetchone: the end of the stream raises instead of
\* returning None.
fetchone_raising(a) ==
    LET r == IF a.rows # <<>>
             THEN [adapter |-> [a EXCEPT !.rows = Tail(a.rows)],
                   ret |-> Head(a.rows)]
             ELSE LET f == CursorFetchone(a.cursor) IN
                  [adapter |-> [a EXCEPT !.cursor = f.cursor], ret |-> f.ret]
    IN [adapter |-> r.adapter,
        ret |-> r.ret,
        raised |-> IF r.ret = None THEN "StopIteration" ELSE "none"]

\* fetchone(): the buffered row if there is one, else the cursor's next row.
fetchone(a) ==
    IF a.rows # <<>>
    THEN [adapter |-> [a EXCEPT !.rows = Tail(a.rows)],
          ret |-> Head(a.rows),
          raised |-> "none"]
    ELSE LET f == CursorFetchone(a.cursor) IN
         [adapter |-> [a EXCEPT !.cursor = f.cursor],
          ret |-> f.ret,
          raised |-> "none"]

\* The loop of fetchmany: up to size calls of fetchone, stopping at None.
RECURSIVE fetchmany_loop(_, _, _)
fetchmany_loop(a, size, result) ==
    IF size <= 0
    THEN [adapter |-> a, ret |-> result]
    ELSE LET f == fetchone(a) IN
         IF f.ret = None
         THEN [adapter |-> f.adapter, ret |-> result]
         ELSE fetchmany_loop(f.adapter, size - 1, Append(result, f.ret))

\* fetchmany(size)
fetchmany(a, size) == fetchmany_loop(a, size, <<>>)

\* fetchmany(): size defaults to cursor.arraysize, an attribute of the raw
\* cursor that its owner may set at any time.
fetchmany_default(a, arraysize) == fetchmany(a, arraysize)

\* Faulty variant of __next__: None is returned at the end of the stream.
next_without_stop(a) ==
    LET f == fetchone(a) IN
    [adapter |-> f.adapter, ret |-> f.ret, raised |-> "none"]

\* __next__(): fetchone, with StopIteration raised at the end of the stream.
__next__(a) ==
    LET f == fetchone(a) IN
    [adapter |-> f.adapter,
     ret |-> f.ret,
     raised |-> IF f.ret = None THEN "StopIteration" ELSE "none"]

\* Faulty variant of description: the flag is not consulted.
description_always_peeks(a) ==
    LET p == peekone(a) IN
    [adapter |-> p.adapter, ret |-> p.adapter.cursor.description]

\* Faulty variant of description: the first row is fetched, not peeked.
description_fetching(a) ==
    IF ~a.initialized
    THEN LET p == fetchone(a) IN
         [adapter |-> [p.adapter EXCEPT !.initialized = TRUE],
          ret |-> p.adapter.cursor.description]
    ELSE [adapter |-> a, ret |-> a.cursor.description]

\* description: peek once if the metadata was never loaded, then read it.
description(a) ==
    IF ~a.initialized
    THEN LET p == peekone(a) IN
         [adapter |-> p.adapter, ret |-> p.adapter.cursor.description]
    ELSE [adapter |-> a, ret |-> a.cursor.description]

\* Faulty variant of execute: the buffer is kept.
execute_keeping_rows(a, stmt) ==
    LET x == CursorExecute(a.cursor, "execute", stmt) IN
    [adapter |-> [cursor |-> x.cursor, rows |-> a.rows, initialized |-> FALSE],
     ret |-> x.ret]

\* execute(...): drop the buffer and the flag, then delegate.
execute(a, stmt) ==
    LET x == CursorExecute(a.cursor, "execute", stmt) IN
    [adapter |-> [cursor |-> x.cursor, rows |-> <<>>, initialized |-> FALSE],
     ret |-> x.ret]

\* executemany(...): as execute, delegating to cursor.executemany.
executemany(a, stmt) ==
    LET x == CursorExecute(a.cursor, "executemany", stmt) IN
    [adapter |-> [cursor |-> x.cursor, rows |-> <<>>, initialized |-> FALSE],
     ret |-> x.ret]

\* Faulty variant of rowcount: the count is taken after a peek.
rowcount_peeking(a) ==
    LET p == peekone(a) IN
    [adapter |-> p.adapter, ret |-> CursorRowcount(p.adapter.cursor)]

\* rowcount: the raw cursor's rowcount.
rowcount(a) == [adapter |-> a, ret |-> CursorRowcount(a.cursor)]

\* close(): close the raw cursor.
close(a) == [adapter |-> [a EXCEPT !.cursor = CursorClose(a.cursor)]]

\* ------------------------------------- the adapter, the raw cursor raising
\* No method of the adapter has a try statement: an error raised by the raw
\* cursor ends the method at the raising call and reaches the owner as it is.

\* peekone(), cursor.fetchone() raising: the flag was set the line before.
peekone_error(a) ==
    LET f == CursorFetchoneError(a.cursor) IN
    [adapter |-> [cursor |-> f.cursor, rows |-> a.rows, initialized |-> TRUE],
     ret |-> None,
     raised |-> f.raised]

\* Faulty variant of fetchone_error: the error is caught and None returned.
fetchone_error_swallowed(a) ==
    LET f == CursorFetchoneError(a.cursor) IN
    [adapter |-> [a EXCEPT !.cursor = f.cursor], ret |-> None, raised |-> "none"]

\* fetchone() on an empty buffer, cursor.fetchone() raising.
fetchone_error(a) ==
    LET f == CursorFetchoneError(a.cursor) IN
    [adapter |-> [a EXCEPT !.cursor = f.cursor], ret |-> None, raised |-> f.raised]

\* The loop of fetchmany when the raw cursor raises at its fetch number
\* good + 1: the rows fetched before are lost with the unfinished result.
RECURSIVE fetchmany_loop_error(_, _, _, _)
fetchmany_loop_error(a, size, result, good) ==
    IF size <= 0
    THEN [adapter |-> a, ret |-> result, raised |-> "none"]
    ELSE IF a.rows = <<>> /\ good = 0
    THEN LET e == fetchone_error(a) IN
         [adapter |-> e.adapter, ret |-> <<>>, raised |-> e.raised]
    ELSE LET f == fetchone(a) IN
         IF f.ret = None
         THEN [adapter |-> f.adapter, ret |-> result, raised |-> "none"]
         ELSE fetchmany_loop_error(f.adapter, size - 1, Append(result, f.ret),
                                   IF a.rows = <<>> THEN good - 1 ELSE good)

\* fetchmany(size), the raw cursor raising at its fetch number good + 1.
fetchmany_error(a, size, good) == fetchmany_loop_error(a, size, <<>>, good)

\* __next__(), cursor.fetchone() raising.
next_error(a) == fetchone_error(a)

\* description with the flag unset, the peek raising.
description_error(a) ==
    LET p == peekone_error(a) IN
    [adapter |-> p.adapter, ret |-> "None", raised |-> p.raised]

\* execute(...), cursor.execute raising: the buffer and the flag were reset.
execute_error(a) ==
    LET x == CursorExecuteError(a.cursor) IN
    [adapter |-> [cursor |-> x.cursor, rows |-> <<>>, initialized |-> FALSE],
     raised |-> x.raised]

\* executemany(...), cursor.executemany raising.
executemany_error(a) ==
    LET x == CursorExecuteError(a.cursor) IN
    [adapter |-> [cursor |-> x.cursor, rows |-> <<>>, initialized |-> FALSE],
     raised |-> x.raised]

\* rowcount, cursor.rowcount raising.
rowcount_error(a) ==
    LET x == CursorError(a.cursor) IN
    [adapter |-> [a EXCEPT !.cursor = x.cursor], raised |-> x.raised]

\* close(), cursor.close() raising.
close_error(a) ==
    LET x == CursorError(a.cursor) IN
    [adapter |-> [a EXCEPT !.cursor = x.cursor], raised |-> x.raised]

\* __init__(cursor): an empty buffer and the flag unset.
AdapterInit(c) == [cursor |-> c, rows |-> <<>>, initialized |-> FALSE]

\* Faulty variant of query: the first row is peeked at once.
query_prefetching(stmt) ==
    LET c0 == [data |-> <<>>, pos |-> 0, nfetch |-> 0, nexec |-> 0,
               description |-> "None", closed |-> FALSE, nerr |-> 0] IN
    peekone(AdapterInit(CursorExecute(c0, "execute", stmt).cursor)).adapter

\* query(): a new raw cursor, the statement executed on it, wrapped.
query(stmt) ==
    LET c0 == [data |-> <<>>, pos |-> 0, nfetch |-> 0, nexec |-> 0,
               description |-> "None", closed |-> FALSE, nerr |-> 0] IN
    AdapterInit(CursorExecute(c0, "execute", stmt).cursor)

\* ------------------------------------------------------ the type mapper
\* A type code is a string, modelled as the sequence of its characters.
LowerLetters == <<"a", "b", "c", "d", "e", "f", "g", "h", "i", "j", "k", "l", "m", "n", "o", "p", "q", "r", "s", "t", "u", "v", "w", "x", "y", "z">>

UpperLetters == <<"A", "B", "C", "D", "E", "F", "G", "H", "I", "J", "K", "L", "M", "N", "O", "P", "Q", "R", "S", "T", "U", "V", "W", "X", "Y", "Z">>

\* str.upper() on one character: a lower-case letter becomes its capital,
\* any other character is kept.
UpperChar(c) ==
    IF \E i \in 1..Len(LowerLetters) : LowerLetters[i] = c
    THEN UpperLetters[CHOOSE i \in 1..Len(LowerLetters) : LowerLetters[i] = c]
    ELSE c

\* str.upper()
StrUpper(str) == [i \in 1..Len(str) |-> UpperChar(str[i])]

\* str.partition(sep)[0]: the part before the first sep, all of it without one.
PartitionHead(str, sep) ==
    IF \E i \in 1..Len(str) : str[i] = sep
    THEN SubSeq(str, 1, (CHOOSE i \in 1..Len(str) :
                            /\ str[i] = sep
                            /\ \A j \in 1..(i - 1) : str[j] # sep) - 1)
    ELSE str

\* TrinoToGCSOperator.type_map
type_map ==
       (<<"B", "O", "O", "L", "E", "A", "N">> :> "BOOL")
    @@ (<<"T", "I", "N", "Y", "I", "N", "T">> :> "INT64")
    @@ (<<"S", "M", "A", "L", "L", "I", "N", "T">> :> "INT64")
    @@ (<<"I", "N", "T", "E", "G", "E", "R">> :> "INT64")
    @@ (<<"B", "I", "G", "I", "N", "T">> :> "INT64")
    @@ (<<"R", "E", "A", "L">> :> "FLOAT64")
    @@ (<<"D", "O", "U", "B", "L", "E">> :> "FLOAT64")
    @@ (<<"D", "E", "C", "I", "M", "A", "L">> :> "NUMERIC")
    @@ (<<"V", "A", "R", "C", "H", "A", "R">> :> "STRING")
    @@ (<<"C", "H", "A", "R">> :> "STRING")
    @@ (<<"V", "A", "R", "B", "I", "N", "A", "R", "Y">> :> "BYTES")
    @@ (<<"J", "S", "O", "N">> :> "STRING")
    @@ (<<"D", "A", "T", "E">> :> "DATE")
    @@ (<<"T", "I", "M", "E">> :> "TIME")
    @@ (<<"T", "I", "M", "E", " ", "W", "I", "T", "H", " ", "T", "I", "M", "E", " ", "Z", "O", "N", "E">> :> "STRING")
    @@ (<<"T", "I", "M", "E", "S", "T", "A", "M", "P">> :> "TIMESTAMP")
    @@ (<<"T", "I", "M", "E", "S", "T", "A", "M", "P", " ", "W", "I", "T", "H", " ", "T", "I", "M", "E", " ", "Z", "O", "N", "E">> :> "STRING")
    @@ (<<"I", "P", "A", "D", "D", "R", "E", "S", "S">> :> "STRING")
    @@ (<<"U", "U", "I", "D">> :> "STRING")

\* Faulty variant of field_to_bigquery: type_map.get without a default.
field_to_bigquery_no_default(f) ==
    LET clear_field_type == PartitionHead(StrUpper(f.type), "(") IN
    [name |-> f.name,
     type |-> IF clear_field_type \in DOMAIN type_map
              THEN type_map[clear_field_type] ELSE "None"]

\* Faulty variant of field_to_bigquery: the type code is not upper-cased.
field_to_bigquery_no_upper(f) ==
    LET clear_field_type == PartitionHead(f.type, "(") IN
    [name |-> f.name,
     type |-> IF clear_field_type \in DOMAIN type_map
              THEN type_map[clear_field_type] ELSE "STRING"]

\* field_to_bigquery(field): upper-case the type code, cut it at the first
\* "(", look it up in type_map with STRING as the default.
field_to_bigquery(f) ==
    LET clear_field_type == PartitionHead(StrUpper(f.type), "(") IN
    [name |-> f.name,
     type |-> IF clear_field_type \in DOMAIN type_map
              THEN type_map[clear_field_type] ELSE "STRING"]

\* ------------------------------------------------------------------- state
VARIABLES
    cursor,       \* self.cursor: the raw cursor
    rows,         \* self.rows: the rows fetched ahead and not yet delivered
    initialized,  \* self.initialized: the metadata was loaded by a peek
    out,          \* the owner's last call and what it got back
    delivered,    \* rows handed to the owner by fetchone/fetchmany/__next__
    count,        \* calls made since the last execution, per method
    first,        \* the first method called since the last execution
    field,        \* the column descriptor last given to field_to_bigquery
    mapped,       \* what field_to_bigquery returned for it
    dropped       \* the last execution discarded a buffered, unread row

vars == <<cursor, rows, initialized, out, delivered, count, first, field,
          mapped, dropped>>

\* The adapter object, as the operators above take it.
Adapter == [cursor |-> cursor, rows |-> rows, initialized |-> initialized]

RECURSIVE SumCount(_, _)
SumCount(f, S) ==
    IF S = {} THEN 0
    ELSE LET x == CHOOSE y \in S : TRUE IN f[x] + SumCount(f, S \ {x})

\* Calls made since the last execution.
Calls == SumCount(count, OpNames)

NoCalls == [o \in OpNames |-> 0]

\* What the owner's last call returned: one value (ret), a list, the column
\* metadata (desc), the engine's result handle (result) or an exception
\* (raised), with the number of fetches the call made on the raw cursor.
NoOut ==
    [op |-> "query", size |-> 0, ret |-> None, list |-> <<>>, desc |-> "None",
     result |-> [call |-> "none", q |-> 0], raised |-> "none", fetches |-> 0,
     rowcount |-> 0]

Install(a) ==
    /\ cursor' = a.cursor
    /\ rows' = a.rows
    /\ initialized' = a.initialized

Log(op) ==
    /\ count' = [count EXCEPT ![op] = @ + 1]
    /\ first' = IF first = "none" THEN op ELSE first

\* Fetches made on the raw cursor by the call that led to adapter a.
Fetches(a) == a.cursor.nfetch - cursor.nfetch

\* The rows of a list of fetched values (None is not a row).
Delivered(list) == SelectSeq(list, LAMBDA r : r # None)

\* The buffer holds a row (and not only end-of-stream markers).
HoldsRow(buffer) == \E i \in 1..Len(buffer) : buffer[i] # None

\* No descriptor was mapped yet.
NoField == [name |-> "", type |-> <<>>]

\* Nothing was mapped yet.
NoMapped == [name |-> "", type |-> "none"]

Init ==
    /\ \E stmt \in Statements :
          LET a == query(stmt) IN
          /\ cursor = a.cursor
          /\ rows = a.rows
          /\ initialized = a.initialized
    /\ out = NoOut
    /\ delivered = <<>>
    /\ count = NoCalls
    /\ first = "none"
    /\ field = NoField
    /\ mapped = NoMapped
    /\ dropped = FALSE

Description ==
    /\ ~cursor.closed
    /\ Calls < MaxCalls
    /\ LET r == description(Adapter) IN
       /\ Install(r.adapter)
       /\ out' = [NoOut EXCEPT !.op = "description", !.desc = r.ret,
                               !.fetches = Fetches(r.adapter)]
    /\ Log("description")
    /\ UNCHANGED <<delivered, field, mapped, dropped>>

PeekOne ==
    /\ ~cursor.closed
    /\ Calls < MaxCalls
    /\ LET r == peekone(Adapter) IN
       /\ Install(r.adapter)
       /\ out' = [NoOut EXCEPT !.op = "peekone", !.ret = r.ret,
                               !.raised = r.raised,
                               !.fetches = Fetches(r.adapter)]
    /\ Log("peekone")
    /\ UNCHANGED <<delivered, field, mapped, dropped>>

FetchOne ==
    /\ ~cursor.closed
    /\ Calls < MaxCalls
    /\ LET r == fetchone(Adapter) IN
       /\ Install(r.adapter)
       /\ out' = [NoOut EXCEPT !.op = "fetchone", !.ret = r.ret,
                               !.raised = r.raised,
                               !.fetches = Fetches(r.adapter)]
       /\ delivered' = delivered \o Delivered(<<r.ret>>)
    /\ Log("fetchone")
    /\ UNCHANGED <<field, mapped, dropped>>

FetchMany ==
    /\ ~cursor.closed
    /\ Calls < MaxCalls
    /\ \E size \in 0..MaxSize :
          LET r == fetchmany(Adapter, size) IN
          /\ Install(r.adapter)
          /\ out' = [NoOut EXCEPT !.op = "fetchmany", !.size = size,
                                  !.list = r.ret,
                                  !.fetches = Fetches(r.adapter)]
          /\ delivered' = delivered \o Delivered(r.ret)
    /\ Log("fetchmany")
    /\ UNCHANGED <<field, mapped, dropped>>

FetchManyDefault ==
    /\ ~cursor.closed
    /\ Calls < MaxCalls
    /\ \E arraysize \in 1..MaxSize :
          LET r == fetchmany_default(Adapter, arraysize) IN
          /\ Install(r.adapter)
          /\ out' = [NoOut EXCEPT !.op = "fetchmany", !.size = arraysize,
                                  !.list = r.ret,
                                  !.fetches = Fetches(r.adapter)]
          /\ delivered' = delivered \o Delivered(r.ret)
    /\ Log("fetchmany")
    /\ UNCHANGED <<field, mapped, dropped>>

IterNext ==
    /\ ~cursor.closed
    /\ Calls < MaxCalls
    /\ LET r == __next__(Adapter) IN
       /\ Install(r.adapter)
       /\ out' = [NoOut EXCEPT !.op = "__next__", !.ret = r.ret,
                               !.raised = r.raised,
                               !.fetches = Fetches(r.adapter)]
       /\ delivered' = delivered \o Delivered(<<r.ret>>)
    /\ Log("__next__")
    /\ UNCHANGED <<field, mapped, dropped>>

Execute ==
    /\ ~cursor.closed
    /\ cursor.nexec < MaxExec
    /\ \E stmt \in Statements :
          LET r == execute(Adapter, stmt) IN
          /\ Install(r.adapter)
          /\ out' = [NoOut EXCEPT !.op = "execute", !.result = r.ret]
    /\ delivered' = <<>>
    /\ count' = NoCalls
    /\ first' = "none"
    /\ dropped' = HoldsRow(rows)
    /\ UNCHANGED <<field, mapped>>

ExecuteMany ==
    /\ ~cursor.closed
    /\ cursor.nexec < MaxExec
    /\ \E stmt \in Statements :
          LET r == executemany(Adapter, stmt) IN
          /\ Install(r.adapter)
          /\ out' = [NoOut EXCEPT !.op = "executemany", !.result = r.ret]
    /\ delivered' = <<>>
    /\ count' = NoCalls
    /\ first' = "none"
    /\ dropped' = HoldsRow(rows)
    /\ UNCHANGED <<field, mapped>>

RowCount ==
    /\ ~cursor.closed
    /\ Calls < MaxCalls
    /\ LET r == rowcount(Adapter) IN
       /\ Install(r.adapter)
       /\ out' = [NoOut EXCEPT !.op = "rowcount", !.rowcount = r.ret,
                               !.fetches = Fetches(r.adapter)]
    /\ Log("rowcount")
    /\ UNCHANGED <<delivered, field, mapped, dropped>>

Close ==
    /\ ~cursor.closed
    /\ Calls < MaxCalls
    /\ LET r == close(Adapter) IN
       /\ Install(r.adapter)
       /\ out' = [NoOut EXCEPT !.op = "close",
                               !.fetches = Fetches(r.adapter)]
    /\ Log("close")
    /\ UNCHANGED <<delivered, field, mapped, dropped>>

Next ==
    \/ Description
    \/ PeekOne
    \/ FetchOne
    \/ FetchMany
    \/ FetchManyDefault
    \/ IterNext
    \/ Execute
    \/ ExecuteMany
    \/ RowCount
    \/ Close

Spec == Init /\ [][Next]_vars

\* ------------------------------------------- calls during which the raw
\* cursor raises
CanFail ==
    /\ ~cursor.closed
    /\ Calls < MaxCalls
    /\ cursor.nerr < MaxErrors

\* A call of method op that ended with the error of result r.
Failed(op, r) ==
    /\ Install(r.adapter)
    /\ out' = [NoOut EXCEPT !.op = op, !.raised = r.raised,
                            !.fetches = Fetches(r.adapter)]
    /\ Log(op)
    /\ UNCHANGED <<delivered, field, mapped, dropped>>

DescriptionFails ==
    /\ CanFail
    /\ ~initialized
    /\ Failed("description", description_error(Adapter))

PeekOneFails ==
    /\ CanFail
    /\ Failed("peekone", peekone_error(Adapter))

FetchOneFails ==
    /\ CanFail
    /\ rows = <<>>
    /\ Failed("fetchone", fetchone_error(Adapter))

FetchManyFails ==
    /\ CanFail
    /\ \E size \in 1..MaxSize, good \in 0..(MaxSize - 1) :
          LET r == fetchmany_error(Adapter, size, good) IN
          /\ r.raised # "none"
          /\ Install(r.adapter)
          /\ out' = [NoOut EXCEPT !.op = "fetchmany", !.size = size,
                                  !.raised = r.raised,
                                  !.fetches = Fetches(r.adapter)]
    /\ Log("fetchmany")
    /\ UNCHANGED <<delivered, field, mapped, dropped>>

IterNextFails ==
    /\ CanFail
    /\ rows = <<>>
    /\ Failed("__next__", next_error(Adapter))

ExecuteFails ==
    /\ ~cursor.closed
    /\ cursor.nexec < MaxExec
    /\ cursor.nerr < MaxErrors
    /\ LET r == execute_error(Adapter) IN
       /\ Install(r.adapter)
       /\ out' = [NoOut EXCEPT !.op = "execute", !.raised = r.raised]
    /\ delivered' = <<>>
    /\ count' = NoCalls
    /\ first' = "none"
    /\ dropped' = HoldsRow(rows)
    /\ UNCHANGED <<field, mapped>>

ExecuteManyFails ==
    /\ ~cursor.closed
    /\ cursor.nexec < MaxExec
    /\ cursor.nerr < MaxErrors
    /\ LET r == executemany_error(Adapter) IN
       /\ Install(r.adapter)
       /\ out' = [NoOut EXCEPT !.op = "executemany", !.raised = r.raised]
    /\ delivered' = <<>>
    /\ count' = NoCalls
    /\ first' = "none"
    /\ dropped' = HoldsRow(rows)
    /\ UNCHANGED <<field, mapped>>

RowCountFails ==
    /\ CanFail
    /\ Failed("rowcount", rowcount_error(Adapter))

CloseFails ==
    /\ CanFail
    /\ Failed("close", close_error(Adapter))

\* One statement's export: every call of the adapter may succeed or meet a
\* raising raw cursor; a further execute or executemany meets one.
NextFail ==
    \/ Description
    \/ PeekOne
    \/ FetchOne
    \/ FetchMany
    \/ FetchManyDefault
    \/ IterNext
    \/ RowCount
    \/ Close
    \/ DescriptionFails
    \/ PeekOneFails
    \/ FetchOneFails
    \/ FetchManyFails
    \/ IterNextFails
    \/ ExecuteFails
    \/ ExecuteManyFails
    \/ RowCountFails
    \/ CloseFails

\* The adapter on a raw cursor that may raise.
SpecFail == Init /\ [][NextFail]_vars

\* ------------------------------------------------- the mapper's inputs
\* str.lower() on one character.
LowerChar(c) ==
    IF \E i \in 1..Len(UpperLetters) : UpperLetters[i] = c
    THEN LowerLetters[CHOOSE i \in 1..Len(UpperLetters) : UpperLetters[i] = c]
    ELSE c

\* Ways of writing a type name: as in the table, in lower case, capitalized,
\* and with every second letter in lower case.
CasePatterns == {"upper", "lower", "capitalized", "alternating"}

Lowered(pattern, i) ==
    CASE pattern = "upper" -> FALSE
      [] pattern = "lower" -> TRUE
      [] pattern = "capitalized" -> i > 1
      [] pattern = "alternating" -> i % 2 = 0

\* The type name key written in the given letter case.
Variant(key, pattern) ==
    [i \in 1..Len(key) |-> IF Lowered(pattern, i) THEN LowerChar(key[i])
                           ELSE key[i]]

\* Argument lists that follow a type name (none, empty, one and two arguments,
\* a nested one).
Suffixes ==
    { <<>>,
      <<"(", ")">>,
      <<"(", "3", ")">>,
      <<"(", "1", "0", ",", "2", ")">>,
      <<"(", "1", "0", ",", " ", "2", ")">>,
      <<"(", "c", "h", "a", "r", "(", "1", ")", ")">> }

\* str is type name key in some letter case, with or without arguments.
IsVariantOf(str, key) ==
    \E pattern \in CasePatterns, suffix \in Suffixes :
        str = Variant(key, pattern) \o suffix

\* Arbitrary type codes: every string of at most MaxStr of these characters.
Alphabet == {"M", "a", "p", "("}

RECURSIVE Strings(_)
Strings(n) ==
    IF n = 0 THEN {<<>>}
    ELSE LET shorter == Strings(n - 1) IN
         shorter \cup {Append(str, c) : str \in shorter, c \in Alphabet}

TypeCodes ==
    {Variant(key, pattern) \o suffix :
        key \in DOMAIN type_map, pattern \in CasePatterns, suffix \in Suffixes}
    \cup Strings(MaxStr)

\* Column descriptors: (name, type_code, ...).
Fields == [name : {"id", "Total"}, type : TypeCodes]

\* The export driver maps one column descriptor.
MapField ==
    /\ \E f \in Fields :
          /\ field' = f
          /\ mapped' = field_to_bigquery(f)
    /\ UNCHANGED <<cursor, rows, initialized, out, delivered, count, first,
                   dropped>>

NextMap == MapField

\* The adapter as query() returned it; the mapper does not touch it.
InitMap == Init /\ cursor.data = <<>>

\* The type mapper alone.
SpecMap == InitMap /\ [][NextMap]_vars

\* The target types of the table.
TargetTypes == {type_map[key] : key \in DOMAIN type_map}

\* ------------------------------------------------------- steps and helpers
\* The step is a call of method op on the adapter.
Called(op) == count'[op] = count[op] + 1

\* The step is a call of execute or executemany.
Executed == cursor'.nexec # cursor.nexec

\* No method other than those of S was called since the last execution.
OnlyCalled(S) == \A o \in OpNames \ S : count[o] = 0

\* seq is the start of the result set, in emission order.
IsPrefix(seq, data) ==
    /\ Len(seq) <= Len(data)
    /\ \A i \in 1..Len(seq) : seq[i] = data[i]

\* Rows of the current result set not yet handed to the owner.
Remaining == Len(cursor.data) - Len(delivered)

\* What the next k calls of fetchone on adapter a return.
RECURSIVE Drain(_, _)
Drain(a, k) ==
    IF k = 0 THEN <<>>
    ELSE LET f == fetchone(a) IN <<f.ret>> \o Drain(f.adapter, k - 1)

\* Enough calls of fetchone to read the buffer, the rest of the result set
\* and two end-of-stream markers.
DrainLen == Len(rows) + (Len(cursor.data) - cursor.pos) + 2

\* The raw cursor is exhausted and no row waits in the buffer.
Exhausted ==
    /\ cursor.pos = Len(cursor.data)
    /\ \A i \in 1..Len(rows) : rows[i] = None

\* ------------------------------------------------------------------ claims

\* C1: when description is read exactly once, before any fetch, and the owner
\* then only calls fetchone, the rows fetchone returns are the result set's
\* rows R1..Rn in emission order, and fetchone returns None only after all n
\* rows were returned: none omitted, none duplicated.
C1_DrainAfterMetadata ==
    ( /\ first = "description"
      /\ count["description"] = 1
      /\ OnlyCalled({"description", "fetchone"}) )
    => /\ IsPrefix(delivered, cursor.data)
       /\ Len(delivered) = Min(count["fetchone"], Len(cursor.data))
       /\ (out.op = "fetchone" /\ out.ret = None => delivered = cursor.data)
       /\ (out.op = "fetchone" /\ out.ret # None
             => out.ret = cursor.data[Len(delivered)])

C1_Witness ==
    /\ first = "description"
    /\ count["description"] = 1
    /\ OnlyCalled({"description", "fetchone"})
    /\ Len(cursor.data) = MaxRows
    /\ out.op = "fetchone"
    /\ out.ret = None
    /\ delivered = cursor.data

\* C2: the first read of description in an execution, made before any other
\* call, fetches exactly once from the raw cursor; every later read of
\* description in that execution fetches nothing, whatever was called between.
C2_MetadataPeeksOnce ==
    [][ Called("description") =>
          /\ (Calls = 0 => out'.fetches = 1)
          /\ (count["description"] >= 1 => out'.fetches = 0) ]_vars

C2_Witness ==
    /\ out.op = "description"
    /\ out.fetches = 0
    /\ first = "description"
    /\ count["description"] = 2
    /\ count["fetchone"] >= 1
    /\ count["fetchmany"] >= 1

\* C3: in every reachable state, the values the following calls of fetchone
\* return (the rows, then None) are the same whether description is read first
\* or not: reading the metadata takes no row from the owner's stream.
C3_MetadataTransparent ==
    Drain(description(Adapter).adapter, DrainLen) = Drain(Adapter, DrainLen)

C3_Witness ==
    /\ ~initialized
    /\ count["fetchone"] >= 1
    /\ cursor.pos < Len(cursor.data)
    /\ description(Adapter).adapter.rows = <<cursor.data[cursor.pos + 1]>>

\* C4: fetchmany(k) returns exactly min(k, remaining) rows, remaining being the
\* rows of the execution not yet handed to the owner, and (for k >= 1) returns
\* the empty list exactly when remaining = 0.
C4_FetchManyCount ==
    out.op = "fetchmany" =>
        LET before == Remaining + Len(out.list) IN
        /\ Len(out.list) = Min(out.size, before)
        /\ (out.size >= 1 => (out.list = <<>> <=> before = 0))

\* C5: iterating (with description read or not) yields the result set's rows
\* one by one, all n of them, then raises StopIteration, and raises it again
\* on every later step without yielding a row.
C5_Iteration ==
    [][ (Called("__next__") /\ OnlyCalled({"__next__", "description"})) =>
          IF Remaining > 0
          THEN /\ out'.raised = "none"
               /\ out'.ret = cursor.data[Len(delivered) + 1]
               /\ delivered' = Append(delivered, out'.ret)
          ELSE /\ out'.raised = "StopIteration"
               /\ out'.ret = None
               /\ delivered' = delivered
               /\ delivered = cursor.data ]_vars

C5_Witness ==
    /\ OnlyCalled({"__next__"})
    /\ count["__next__"] = MaxRows + 2
    /\ Len(cursor.data) = MaxRows
    /\ delivered = cursor.data
    /\ out.op = "__next__"
    /\ out.raised = "StopIteration"

\* C6: execute and executemany leave the buffer empty and the flag unset in
\* whatever state they are called, delegate once to the raw cursor and return
\* its result; the next read of description (no peek made since) fetches once
\* from the new result set.
C6_ExecuteResets ==
    [][ /\ Executed =>
            /\ rows' = <<>>
            /\ initialized' = FALSE
            /\ out'.op \in {"execute", "executemany"}
            /\ cursor'.nexec = cursor.nexec + 1
            /\ cursor'.pos = 0
            /\ out'.result = [call |-> out'.op, q |-> cursor'.nexec]
        /\ ( /\ Called("description")
             /\ cursor.nexec >= 2
             /\ count["description"] = 0
             /\ count["peekone"] = 0 ) =>
            /\ out'.fetches = 1
            /\ Len(rows') = 1
            /\ Head(rows') \in {None, Row(cursor.nexec, cursor.pos + 1)} ]_vars

C6_Witness ==
    /\ cursor.nexec = 2
    /\ out.op = "description"
    /\ out.fetches = 1
    /\ Calls = 1
    /\ rows = <<Row(2, 1)>>

\* C7: fetchone returns the oldest buffered row (the one fetched earliest from
\* the raw cursor) whenever the buffer is not empty, without a fetch, and
\* fetches from the raw cursor only when the buffer is empty.
C7_FetchOneOldest ==
    [][ Called("fetchone") =>
          IF rows # <<>>
          THEN out'.ret = rows[Len(rows)] /\ out'.fetches = 0
          ELSE out'.fetches = 1 ]_vars

\* C8: the value peekone returns is the value the fetchone called right after
\* it returns, and that fetchone makes no fetch on the raw cursor.
C8_PeekDoesNotConsume ==
    [][ (out.op = "peekone" /\ Called("fetchone")) =>
          /\ out'.ret = out.ret
          /\ out'.fetches = 0 ]_vars

C8_Witness ==
    /\ first = "peekone"
    /\ count["peekone"] = 2
    /\ count["fetchone"] = 1
    /\ Calls = 3
    /\ out.op = "fetchone"
    /\ out.ret # None
    /\ out.fetches = 0

\* C9: a new row is pulled by peekone only into an empty buffer, so the buffer
\* holds at most one row in every reachable state.
C9_BufferAtMostOne == Len(rows) <= 1

\* C10: once the raw cursor is exhausted and no row waits in the buffer,
\* fetchone returns None without raising, and so does every later fetchone of
\* the execution: exhaustion lasts until the next execute or executemany.
C10_ExhaustionStable ==
    [][ Exhausted =>
          /\ (Called("fetchone") => out'.ret = None /\ out'.raised = "none")
          /\ (~Executed => Exhausted') ]_vars

C10_Witness ==
    /\ Len(cursor.data) = 0
    /\ first = "description"
    /\ count["fetchone"] >= 2
    /\ out.op = "fetchone"
    /\ out.ret = None
    /\ out.raised = "none"

\* C14: rowcount and close only pass through to the raw cursor: neither
\* changes the buffer or the flag, rowcount returns the raw cursor's rowcount
\* and makes no fetch (no peek), close closes the raw cursor and nothing else.
C14_PassThrough ==
    [][ /\ Called("rowcount") =>
            /\ rows' = rows
            /\ initialized' = initialized
            /\ cursor' = cursor
            /\ out'.fetches = 0
            /\ out'.rowcount = Len(cursor.data)
        /\ Called("close") =>
            /\ rows' = rows
            /\ initialized' = initialized
            /\ out'.fetches = 0
            /\ cursor' = [cursor EXCEPT !.closed = TRUE] ]_vars

C14_Witness ==
    /\ out.op = "close"
    /\ cursor.closed
    /\ count["rowcount"] >= 1
    /\ ~initialized
    /\ rows = <<>>
    /\ Len(cursor.data) >= 1

\* C15: query executes the statement exactly once on a new raw cursor and
\* returns an adapter in its initial state: empty buffer, flag unset, and no
\* row fetched from the raw cursor yet.
C15_QueryInitial ==
    out.op = "query" =>
        /\ rows = <<>>
        /\ initialized = FALSE
        /\ cursor.nexec = 1
        /\ cursor.nfetch = 0
        /\ cursor.pos = 0
        /\ cursor.description = "None"
        /\ cursor.closed = FALSE
        /\ cursor.data = ResultSet(1, Len(cursor.data))

C15_Witness ==
    /\ out.op = "query"
    /\ Len(cursor.data) = MaxRows
    /\ Calls = 0

\* The rows of the current result set, each at the place it was emitted.
IsCurrentRow(r) ==
    /\ r.q = cursor.nexec
    /\ r.n \in 1..cursor.pos
    /\ r = cursor.data[r.n]

\* C16: after execute or executemany, every row returned by peekone,
\* fetchone, fetchmany or __next__, and every row still buffered, is a row
\* the new result set emitted, and the rows are handed to the owner in the
\* order the new result set emitted them, also when the execution before
\* left a peeked row unread.
C16_NoStaleRow ==
    cursor.nexec > 1 =>
        /\ \A i \in 1..Len(rows) : rows[i] # None => IsCurrentRow(rows[i])
        /\ \A i \in 1..Len(out.list) : IsCurrentRow(out.list[i])
        /\ out.ret # None => IsCurrentRow(out.ret)
        /\ Len(delivered) <= Len(cursor.data)
        /\ \A i \in 1..Len(delivered) : delivered[i] = cursor.data[i]

\* C17: fetchone returns None only when every row pulled from the raw cursor
\* was handed to the owner: no row waits in the buffer behind a buffered None.
C17_NoEarlyEnd ==
    (out.op = "fetchone" /\ out.ret = None) =>
        /\ ~HoldsRow(rows)
        /\ Len(delivered) = cursor.pos

\* The set of the values of a list.
Range(seq) == {seq[i] : i \in 1..Len(seq)}

\* C18: in every state of an execution, also after a call the raw cursor
\* ended with an error, the rows handed to the owner together with the rows in
\* the buffer are exactly the rows pulled from the raw cursor, each once: no
\* pulled row is lost and none is handed over twice.
C18_RowConservation ==
    LET held == Delivered(rows) IN
    /\ Range(delivered) \cup Range(held) = {cursor.data[i] : i \in 1..cursor.pos}
    /\ Len(delivered) + Len(held) = cursor.pos

\* C20: a non-empty buffer implies the flag is set, so reading description
\* makes no fetch while a value is buffered.
C20_BufferImpliesFlag ==
    rows # <<>> =>
        /\ initialized
        /\ description(Adapter).adapter.cursor.nfetch = cursor.nfetch
        /\ description(Adapter).adapter.rows = rows

C20_Witness ==
    /\ rows # <<>>
    /\ cursor.nexec = 2
    /\ out.op = "description"
    /\ count["fetchone"] >= 1

\* C12: field_to_bigquery is total: for every descriptor it returns a name and
\* a type, the name unchanged and the type one of the table's target types; a
\* normalized type name that is not in the table gives STRING.
C12_MapFieldTotal ==
    mapped # NoMapped =>
        /\ DOMAIN mapped = {"name", "type"}
        /\ mapped.name = field.name
        /\ mapped.type \in TargetTypes
        /\ ( (\A key \in DOMAIN type_map : ~IsVariantOf(field.type, key))
               => mapped.type = "STRING" )

C12_Witness ==
    /\ field = [name |-> "Total", type |-> <<"M", "a", "p">>]
    /\ mapped = [name |-> "Total", type |-> "STRING"]

\* C13: the type code is upper-cased and cut at its first "(" before the
\* lookup: a table key in any letter case, with or without an argument list,
\* maps to the key's target type (decimal(10,2) to NUMERIC, time with time
\* zone to STRING, BIGINT and INTEGER to INT64).
C13_MapFieldNormalizes ==
    mapped # NoMapped =>
        /\ \A key \in DOMAIN type_map :
              IsVariantOf(field.type, key) => mapped.type = type_map[key]
        /\ field.type = <<"d", "e", "c", "i", "m", "a", "l",
                          "(", "1", "0", ",", "2", ")">>
             => mapped.type = "NUMERIC"
        /\ field.type = Variant(<<"T", "I", "M", "E", " ", "W", "I", "T", "H",
                                  " ", "T", "I", "M", "E", " ", "Z", "O", "N",
                                  "E">>, "lower")
             => mapped.type = "STRING"
        /\ field.type = <<"B", "I", "G", "I", "N", "T">>
             => mapped.type = "INT64"
        /\ field.type = <<"I", "N", "T", "E", "G", "E", "R">>
             => mapped.type = "INT64"

C13_Witness ==
    /\ field.type = <<"d", "e", "c", "i", "m", "a", "l",
                      "(", "1", "0", ",", "2", ")">>
    /\ mapped = [name |-> "id", type |-> "NUMERIC"]

\* C11: an error raised by the raw cursor during any method reaches the owner
\* as that error: the method returns no row, no list and no end-of-stream
\* marker in its place, and makes no further call on the raw cursor (no
\* retry); and the adapter raises no such error of its own.
C11_ErrorsPropagate ==
    [][ /\ cursor'.nerr # cursor.nerr =>
            /\ cursor'.nerr = cursor.nerr + 1
            /\ out'.raised = QueryExecutionError
            /\ out'.list = <<>>
            /\ out'.ret = None
            /\ delivered' = delivered \/ delivered' = <<>>
            /\ IF Executed
               THEN cursor'.nexec = cursor.nexec + 1 /\ out'.fetches = 0
               ELSE IF out'.op = "fetchmany"
               THEN out'.fetches \in 1..out'.size
               ELSE IF out'.op \in {"rowcount", "close"}
               THEN out'.fetches = 0
               ELSE out'.fetches = 1
        /\ out'.raised = QueryExecutionError /\ out' # out =>
            cursor'.nerr = cursor.nerr + 1 ]_vars

C11_Witness ==
    /\ out.op = "fetchmany"
    /\ out.raised = QueryExecutionError
    /\ out.fetches = 2
    /\ cursor.nerr = 1
    /\ cursor.pos = 1

\* C19: a failed peek leaves the adapter unchanged: when the raw cursor's
\* fetch raises during peekone or during the peek of description, the buffer
\* and the flag keep the values they had.
C19_FailedPeekNoChange ==
    [][ ( /\ Called("peekone") \/ Called("description")
          /\ out'.raised = QueryExecutionError ) =>
            /\ rows' = rows
            /\ initialized' = initialized ]_vars
====
